---- MODULE Spec2Model ----
(***************************************************************************)
(* Model of the VR Mensal pipeline (steps.py) and of the workbook tools of *)
(* agent_vr.py.                                                            *)
(*                                                                         *)
(* A DataFrame is a record [cols, rows]: cols is the sequence of column    *)
(* names, rows a sequence of functions from column name to cell.  Cells    *)
(* are integers; NaN is the blank cell.  Money is in whole currency units; *)
(* a tolerance is given in hundredths (1 is the default 0.01), and the     *)
(* comparisons with 80% and 20% are made exactly, in integers.             *)
(*                                                                         *)
(* bases and base are the role mapping and the eligibility table of the    *)
(* last run of the builder, gerado the generated workbook on disk, modelo  *)
(* the template workbook, last what the last operation returned.           *)
(*                                                                         *)
(* File names, headers and union-chapter texts are sequences of            *)
(* characters, a character being a one-character string or the name of its *)
(* code point.  pasta is the input directory, texto the string handed to   *)
(* the functions of utils.py, exec the position of an operation that is    *)
(* run step by step together with the workbook handles it holds open.      *)
(***************************************************************************)
EXTENDS Integers, Sequences, FiniteSets, TLC

VARIABLES bases, base, gerado, modelo, last, pasta, texto, exec

vars == <<bases, base, gerado, modelo, last, pasta, texto, exec>>

\* the state of the directory, of the string functions and of the stepwise run
outros == <<pasta, texto, exec>>

(* ------------------------------ bounds -------------------------------- *)
MaxMat == 2
MaxAtivos == 2
MaxFerias == 2
MaxDesligados == 1
MaxLinhas == 2
MaxTexto == 3
MaxArquivos == 3

(* --------------------------- program constants ------------------------ *)
DIAS_BASE == 22
VALOR_DIARIO_VR == 30
NaN == -999999

(* ----------------------------- DataFrames ----------------------------- *)
EmptyDF == [cols |-> <<>>, rows |-> <<>>]

HasCol(df, c) == \E i \in 1..Len(df.cols) : df.cols[i] = c

IsEmpty(df) == Len(df.cols) = 0 \/ Len(df.rows) = 0

SeqRange(s) == {s[i] : i \in 1..Len(s)}

Column(df, c) == [i \in 1..Len(df.rows) |-> df.rows[i][c]]

RECURSIVE SelectRows(_, _)
SelectRows(rows, keep) ==
    IF rows = <<>> THEN <<>>
    ELSE (IF keep[1] THEN <<Head(rows)>> ELSE <<>>)
         \o SelectRows(Tail(rows), Tail(keep))

\* df[c] = vals : a new column goes last, an existing one is overwritten in place
SetCol(df, c, vals) ==
    [cols |-> IF HasCol(df, c) THEN df.cols ELSE Append(df.cols, c),
     rows |-> [i \in 1..Len(df.rows) |->
                 [k \in (DOMAIN df.rows[i]) \cup {c} |->
                     IF k = c THEN vals[i] ELSE df.rows[i][k]]]]

Abs(x) == IF x < 0 THEN -x ELSE x

RECURSIVE Sum(_)
Sum(s) == IF s = <<>> THEN 0 ELSE Head(s) + Sum(Tail(s))

\* pd.to_numeric(..., errors="coerce").fillna(0)
fillna0(v) == IF v = NaN THEN 0 ELSE v

Numeric(df, c) == [i \in 1..Len(df.rows) |-> fillna0(df.rows[i][c])]

\* Series.isin: a blank key matches a blank key
isin(v, s) == v \in SeqRange(s)

\* bases.get(k, pd.DataFrame())
Get(bs, k) == IF k \in DOMAIN bs.tab THEN bs.tab[k] ELSE EmptyDF

(* ------------------------------- strings ------------------------------- *)
\* str.isspace(): the space, the tab and the no-break space
isspace(ch) == ch \in {" ", "U+0009", "U+00A0"}

\* unicodedata.combining(ch): the combining acute accent and diaeresis
combining(ch) == ch \in {"U+0301", "U+0308"}

\* unicodedata.normalize("NFKD", ch): an accented letter is its letter and a
\* combining accent, the no-break space a space, the spacing diaeresis a
\* space and a combining diaeresis
NFKDch(ch) ==
    CASE ch = "á" -> <<"a", "U+0301">>
      [] ch = "é" -> <<"e", "U+0301">>
      [] ch = "Á" -> <<"A", "U+0301">>
      [] ch = "É" -> <<"E", "U+0301">>
      [] ch = "U+00A0" -> <<" ">>
      [] ch = "U+00A8" -> <<" ", "U+0308">>
      [] OTHER -> <<ch>>

Minusculas ==
    <<"a", "d", "e", "f", "g", "i", "j", "l", "o", "p", "r", "s", "t", "v", "x", "á", "é">>
Maiusculas ==
    <<"A", "D", "E", "F", "G", "I", "J", "L", "O", "P", "R", "S", "T", "V", "X", "Á", "É">>

\* str.upper() of one character: the sharp s becomes two letters
upperCh(ch) ==
    IF ch = "ß" THEN <<"S", "S">>
    ELSE IF \E i \in 1..Len(Minusculas) : Minusculas[i] = ch
         THEN <<Maiusculas[CHOOSE i \in 1..Len(Minusculas) : Minusculas[i] = ch]>>
         ELSE <<ch>>

\* str.lower() of one character
lowerCh(ch) ==
    IF \E i \in 1..Len(Maiusculas) : Maiusculas[i] = ch
    THEN <<Minusculas[CHOOSE i \in 1..Len(Maiusculas) : Maiusculas[i] = ch]>>
    ELSE <<ch>>

RECURSIVE NFKD(_)
NFKD(s) == IF s = <<>> THEN <<>> ELSE NFKDch(Head(s)) \o NFKD(Tail(s))

RECURSIVE upper(_)
upper(s) == IF s = <<>> THEN <<>> ELSE upperCh(Head(s)) \o upper(Tail(s))

RECURSIVE lower(_)
lower(s) == IF s = <<>> THEN <<>> ELSE lowerCh(Head(s)) \o lower(Tail(s))

\* "".join(ch for ch in c if not unicodedata.combining(ch))
SemCombinantes(s) == SelectSeq(s, LAMBDA ch : ~combining(ch))

RECURSIVE lstrip(_)
lstrip(s) == IF s # <<>> /\ isspace(Head(s)) THEN lstrip(Tail(s)) ELSE s

RECURSIVE rstrip(_)
rstrip(s) ==
    IF s # <<>> /\ isspace(s[Len(s)]) THEN rstrip(SubSeq(s, 1, Len(s) - 1)) ELSE s

\* str.strip()
strip(s) == rstrip(lstrip(s))

\* re.sub(r"\s+", "_", c): every run of whitespace becomes one underscore
RECURSIVE SubEspacos(_)
SubEspacos(s) ==
    IF s = <<>> THEN <<>>
    ELSE IF isspace(Head(s)) THEN <<"_">> \o SubEspacos(lstrip(Tail(s)))
    ELSE <<Head(s)>> \o SubEspacos(Tail(s))

\* sub in s
Contains(sub, s) ==
    \E i \in 0..(Len(s) - Len(sub)) : SubSeq(s, i + 1, i + Len(sub)) = sub

\* s.endswith(suf)
EndsWith(s, suf) ==
    Len(suf) <= Len(s) /\ SubSeq(s, Len(s) - Len(suf) + 1, Len(s)) = suf

(* ------------------------------- utils.py ------------------------------ *)
\* the whitespace replaced before the accents are decomposed
normalize_col_subAntes(c) == strip(upper(SemCombinantes(NFKD(SubEspacos(c)))))

\* the body of the loop of normalize_cols, for one header
normalize_col(c) == SubEspacos(strip(upper(SemCombinantes(NFKD(c)))))

normalize_cols(cols) == [i \in 1..Len(cols) |-> normalize_col(cols[i])]

strip_accents_upper(s) == strip(upper(SemCombinantes(NFKD(s))))

UFs ==
    <<<<"S", "P">>, <<"R", "J">>, <<"M", "G">>, <<"R", "S">>, <<"P", "R">>, <<"S", "C">>,
      <<"B", "A">>, <<"P", "E">>, <<"G", "O">>, <<"D", "F">>, <<"E", "S">>, <<"M", "T">>,
      <<"M", "S">>, <<"P", "A">>, <<"A", "M">>, <<"C", "E">>>>

\* the list searched from its end
RECURSIVE UltimaUF(_, _)
UltimaUF(ufs, s) ==
    IF ufs = <<>> THEN <<"?">>
    ELSE IF Contains(ufs[Len(ufs)], s) THEN ufs[Len(ufs)]
    ELSE UltimaUF(SubSeq(ufs, 1, Len(ufs) - 1), s)

\* for uf in [...]: if uf in s: return uf
RECURSIVE PrimeiraUF(_, _)
PrimeiraUF(ufs, s) ==
    IF ufs = <<>> THEN <<"?">>
    ELSE IF Contains(Head(ufs), s) THEN Head(ufs)
    ELSE PrimeiraUF(Tail(ufs), s)

\* the last code of the list that occurs
infer_estado_ultima(sindicato) == UltimaUF(UFs, strip_accents_upper(sindicato))

infer_estado_from_sindicato(sindicato) == PrimeiraUF(UFs, strip_accents_upper(sindicato))

(* ------------------------- montar_base_elegiveis ---------------------- *)
\* rows of the right table matching key m, in the right table's order
RECURSIVE Matches(_, _)
Matches(rrows, m) ==
    IF rrows = <<>> THEN <<>>
    ELSE (IF m # NaN /\ Head(rrows)["MATRICULA"] = m THEN <<Head(rrows)>> ELSE <<>>)
         \o Matches(Tail(rrows), m)

\* one left row joined with its matches; no match keeps the row with a blank
JoinRow(r, ms) ==
    IF ms = <<>>
    THEN <<[k \in (DOMAIN r) \cup {"DIAS_DE_FERIAS"} |->
              IF k = "DIAS_DE_FERIAS" THEN NaN ELSE r[k]]>>
    ELSE [j \in 1..Len(ms) |->
            [k \in (DOMAIN r) \cup {"DIAS_DE_FERIAS"} |->
                IF k = "DIAS_DE_FERIAS" THEN ms[j]["DIAS_DE_FERIAS"] ELSE r[k]]]

RECURSIVE MergeRows(_, _)
MergeRows(lrows, rrows) ==
    IF lrows = <<>> THEN <<>>
    ELSE JoinRow(Head(lrows), Matches(rrows, Head(lrows)["MATRICULA"]))
         \o MergeRows(Tail(lrows), rrows)

\* ativos.merge(ferias[["MATRICULA","DIAS_DE_FERIAS"]], on="MATRICULA", how="left")
MergeLeft(ativos, ferias) ==
    [cols |-> Append(ativos.cols, "DIAS_DE_FERIAS"),
     rows |-> MergeRows(ativos.rows, ferias.rows)]

\* the filter without its negation: keeps the terminated rows
RemoveDesligados_keep(ativos, desligados) ==
    [cols |-> ativos.cols,
     rows |-> SelectRows(ativos.rows,
                 [i \in 1..Len(ativos.rows) |->
                     isin(ativos.rows[i]["MATRICULA"], Column(desligados, "MATRICULA"))])]

RemoveDesligados(ativos, desligados) ==
    [cols |-> ativos.cols,
     rows |-> SelectRows(ativos.rows,
                 [i \in 1..Len(ativos.rows) |->
                     ~isin(ativos.rows[i]["MATRICULA"], Column(desligados, "MATRICULA"))])]

ExcluiDesligados(bs) ==
    ~IsEmpty(Get(bs, "DESLIGADOS")) /\ HasCol(Get(bs, "ATIVOS"), "MATRICULA")

AposDesligados(bs) ==
    IF ExcluiDesligados(bs)
    THEN RemoveDesligados(Get(bs, "ATIVOS"), Get(bs, "DESLIGADOS"))
    ELSE Get(bs, "ATIVOS")

AjustaFerias(bs) ==
    /\ ~IsEmpty(Get(bs, "FERIAS"))
    /\ HasCol(Get(bs, "ATIVOS"), "MATRICULA")
    /\ HasCol(Get(bs, "FERIAS"), "DIAS_DE_FERIAS")

\* the column lookups of lines 61, 66 and 70 that raise KeyError
MontarRaises(bs) ==
    \/ ExcluiDesligados(bs) /\ ~HasCol(Get(bs, "DESLIGADOS"), "MATRICULA")
    \/ AjustaFerias(bs) /\ ~HasCol(Get(bs, "FERIAS"), "MATRICULA")
    \/ AjustaFerias(bs) /\ HasCol(Get(bs, "ATIVOS"), "DIAS_DE_FERIAS")

\* the days clamped at zero
ComDias_clamp(bs) ==
    LET a == AposDesligados(bs) IN
    IF AjustaFerias(bs)
    THEN LET m == MergeLeft(a, Get(bs, "FERIAS")) IN
         SetCol(m, "DIAS",
                [i \in 1..Len(m.rows) |->
                    IF DIAS_BASE - fillna0(m.rows[i]["DIAS_DE_FERIAS"]) < 0 THEN 0
                    ELSE DIAS_BASE - fillna0(m.rows[i]["DIAS_DE_FERIAS"])])
    ELSE SetCol(a, "DIAS", [i \in 1..Len(a.rows) |-> DIAS_BASE])

ComDias(bs) ==
    LET a == AposDesligados(bs) IN
    IF AjustaFerias(bs)
    THEN LET m == MergeLeft(a, Get(bs, "FERIAS")) IN
         SetCol(m, "DIAS",
                [i \in 1..Len(m.rows) |-> DIAS_BASE - fillna0(m.rows[i]["DIAS_DE_FERIAS"])])
    ELSE SetCol(a, "DIAS", [i \in 1..Len(a.rows) |-> DIAS_BASE])

\* the total clamped at zero
ComTotal_clamp(df) ==
    LET d == SetCol(df, "VALOR_DIARIO_VR", [i \in 1..Len(df.rows) |-> VALOR_DIARIO_VR]) IN
    SetCol(d, "TOTAL",
           [i \in 1..Len(d.rows) |->
               IF d.rows[i]["DIAS"] < 0 THEN 0
               ELSE d.rows[i]["DIAS"] * d.rows[i]["VALOR_DIARIO_VR"]])

ComTotal(df) ==
    LET d == SetCol(df, "VALOR_DIARIO_VR", [i \in 1..Len(df.rows) |-> VALOR_DIARIO_VR]) IN
    SetCol(d, "TOTAL",
           [i \in 1..Len(d.rows) |-> d.rows[i]["DIAS"] * d.rows[i]["VALOR_DIARIO_VR"]])

\* lines 79-81: the union-chapter text normalized in place and the region
\* code inferred from it, when the table has the column
ComEstado(df) ==
    IF HasCol(df, "SINDICATO")
    THEN LET d == SetCol(df, "SINDICATO",
                         [i \in 1..Len(df.rows) |->
                             strip_accents_upper(df.rows[i]["SINDICATO"])])
         IN SetCol(d, "ESTADO",
                   [i \in 1..Len(d.rows) |->
                       infer_estado_from_sindicato(d.rows[i]["SINDICATO"])])
    ELSE df

montar_base_elegiveis(bs) == ComEstado(ComTotal(ComDias(bs)))

(* ------------------------------ inputs -------------------------------- *)
Mats == 1..MaxMat
VacDays == {10, 25}

SeqsUpTo(S, n) == UNION {[1..k -> S] : k \in 0..n}

\* active rosters of up to n rows, and one without the MATRICULA column
AtivosAte(n) ==
    {[cols |-> <<"MATRICULA", "EMPRESA">>,
      rows |-> [i \in 1..Len(ms) |-> [MATRICULA |-> ms[i], EMPRESA |-> 7]]]
        : ms \in SeqsUpTo(Mats, n)}
    \cup {[cols |-> <<"EMPRESA">>, rows |-> <<[EMPRESA |-> 7]>>]}

\* an active roster with the union-chapter column
AtivosComSindicato ==
    [cols |-> <<"MATRICULA", "SINDICATO">>,
     rows |-> <<[MATRICULA |-> 1, SINDICATO |-> <<"r", "s", "P", " ">>],
                [MATRICULA |-> 2, SINDICATO |-> <<"J", "á">>]>>]

\* terminated rosters of up to n rows, and one without the MATRICULA column
DesligadosAte(n) ==
    {[cols |-> <<"MATRICULA">>,
      rows |-> [i \in 1..Len(ms) |-> [MATRICULA |-> ms[i]]]]
        : ms \in SeqsUpTo(Mats, n)}
    \cup {[cols |-> <<"DATA_DEMISSAO">>, rows |-> <<[DATA_DEMISSAO |-> 1]>>]}

\* vacation rosters of up to n records, one with a blank day count, and one
\* without each of the two columns
FeriasAte(n) ==
    {[cols |-> <<"MATRICULA", "DIAS_DE_FERIAS">>,
      rows |-> [i \in 1..Len(rs) |-> [MATRICULA |-> rs[i][1], DIAS_DE_FERIAS |-> rs[i][2]]]]
        : rs \in SeqsUpTo(Mats \X VacDays, n)}
    \cup {[cols |-> <<"MATRICULA", "DIAS_DE_FERIAS">>,
           rows |-> <<[MATRICULA |-> 1, DIAS_DE_FERIAS |-> NaN]>>],
          [cols |-> <<"MATRICULA">>, rows |-> <<[MATRICULA |-> 1]>>],
          [cols |-> <<"DIAS_DE_FERIAS">>, rows |-> <<[DIAS_DE_FERIAS |-> 10]>>]}

\* a role mapping: the roles loaded, in the order they were loaded
RoleOrder == <<"ATIVOS", "FERIAS", "DESLIGADOS">>

\* the choice of a role that was not loaded
Ausente == [cols |-> <<"?">>, rows |-> <<>>]

\* the mapping carregar_bases returns for the tables chosen for the roles
MkBases(a, f, d) ==
    LET t == ("ATIVOS" :> a) @@ ("FERIAS" :> f) @@ ("DESLIGADOS" :> d)
        ks == {k \in DOMAIN t : t[k] # Ausente}
    IN [order |-> SelectSeq(RoleOrder, LAMBDA k : k \in ks), tab |-> [k \in ks |-> t[k]]]

NoBases == [order |-> <<>>, tab |-> <<>>]
NoFile == [names |-> <<>>, data |-> <<>>]

(* -------------------------- the input directory ------------------------ *)
\* A directory is whether it exists and its files in listing order; a file
\* is its name and the table of its first sheet, headers as they were typed.
Xlsx == <<".", "x", "l", "s", "x">>

HintAtivos == <<"A", "T", "I", "V", "O", "S">>
HintFerias == <<"F", "E", "R", "I", "A", "S">>
HintFeriasAcento == <<"F", "É", "R", "I", "A", "S">>
HintDesligados == <<"D", "E", "S", "L", "I", "G", "A", "D", "O", "S">>

\* REQUIRED_FILES_HINTS.values()
REQUIRED_FILES_HINTS == <<HintAtivos, HintDesligados, HintFeriasAcento>>

\* the first hint that no .xlsx file name holds, both in lowercase; none is <<>>
RECURSIVE PrimeiroHintAusente(_, _)
PrimeiroHintAusente(hints, files) ==
    IF hints = <<>> THEN <<>>
    ELSE IF ~\E i \in 1..Len(files) : Contains(lower(Head(hints)), files[i])
         THEN Head(hints)
         ELSE PrimeiroHintAusente(Tail(hints), files)

\* [f.lower() for f in os.listdir(input_dir) if f.lower().endswith(".xlsx")]
ArquivosXlsxMinusculos(p) ==
    LET nomes == [i \in 1..Len(p.arquivos) |-> lower(p.arquivos[i].nome)]
    IN SelectSeq(nomes, LAMBDA f : EndsWith(f, Xlsx))

\* FileNotFoundError for a missing directory, or naming the first hint that
\* no file matches
_validate_input_dir(p) ==
    IF ~p.existe THEN [status |-> "raised", hint |-> <<>>]
    ELSE LET h == PrimeiroHintAusente(REQUIRED_FILES_HINTS, ArquivosXlsxMinusculos(p))
         IN IF h = <<>> THEN [status |-> "ok", hint |-> <<>>]
            ELSE [status |-> "raised", hint |-> h]

\* df.columns = normalize_cols(df.columns)
NormalizaColunas(df) ==
    LET nc == normalize_cols(df.cols) IN
    [cols |-> nc,
     rows |-> [i \in 1..Len(df.rows) |->
                 [k \in SeqRange(nc) |->
                     df.rows[i][df.cols[CHOOSE j \in 1..Len(nc) : nc[j] = k]]]]]

\* the chain that takes a name only when it holds the hints of one role
PapelDe_unico(nome) ==
    LET a == Contains(HintAtivos, nome)
        f == Contains(HintFerias, nome) \/ Contains(HintFeriasAcento, nome)
        d == Contains(HintDesligados, nome)
    IN IF a /\ ~f /\ ~d THEN "ATIVOS"
       ELSE IF f /\ ~a /\ ~d THEN "FERIAS"
       ELSE IF d /\ ~a /\ ~f THEN "DESLIGADOS"
       ELSE ""

\* the if / elif chain of lines 39-44 on the uppercased name; "" is no role
PapelDe(nome) ==
    IF Contains(HintAtivos, nome) THEN "ATIVOS"
    ELSE IF Contains(HintFerias, nome) \/ Contains(HintFeriasAcento, nome) THEN "FERIAS"
    ELSE IF Contains(HintDesligados, nome) THEN "DESLIGADOS"
    ELSE ""

\* bases[k] = df: a new key goes last, an existing key keeps its place
Atribui(bs, k, df) ==
    [order |-> IF k \in DOMAIN bs.tab THEN bs.order ELSE Append(bs.order, k),
     tab   |-> [x \in (DOMAIN bs.tab) \cup {k} |-> IF x = k THEN df ELSE bs.tab[x]]]

\* glob.glob(os.path.join(input_dir, "*.xlsx")): the extension as it is written
Glob(p) == SelectSeq(p.arquivos, LAMBDA f : EndsWith(f.nome, Xlsx))

RECURSIVE CarregarLoop(_, _)
CarregarLoop(files, bs) ==
    IF files = <<>> THEN bs
    ELSE LET nome == upper(Head(files).nome)
             df == NormalizaColunas(Head(files).tab)
         IN CarregarLoop(Tail(files),
                         IF PapelDe(nome) = "" THEN bs ELSE Atribui(bs, PapelDe(nome), df))

carregar_bases(p) == CarregarLoop(Glob(p), NoBases)

\* the header typed in the sheets of the directory
CabDias == <<"d", "i", "a", "s", " ", "d", "e", " ", "f", "é", "r", "i", "a", "s">>

\* the sheet of file number id: one cell that tells the files apart
Planilha(id) == [cols |-> <<CabDias>>, rows |-> <<(CabDias :> id)>>]

\* ATIVOS.xlsx, FERIAS.xlsx, FÉRIAS.xlsx, DESLIGADOS.xlsx,
\* ATIVOS_DESLIGADOS.xlsx, ferias_ativos.xlsx, dados.xlsx, ATIVOS.xls
NomesDeArquivo ==
    <<HintAtivos \o Xlsx,
      HintFerias \o Xlsx,
      HintFeriasAcento \o Xlsx,
      HintDesligados \o Xlsx,
      HintAtivos \o <<"_">> \o HintDesligados \o Xlsx,
      <<"f", "e", "r", "i", "a", "s", "_", "a", "t", "i", "v", "o", "s">> \o Xlsx,
      <<"d", "a", "d", "o", "s">> \o Xlsx,
      HintAtivos \o <<".", "x", "l", "s">>>>

\* the directory that lists the files numbered ids, in that order
MkPasta(ids) ==
    [existe |-> TRUE,
     arquivos |-> [i \in 1..Len(ids) |->
                     [nome |-> NomesDeArquivo[ids[i]], tab |-> Planilha(ids[i])]]]

(* ------------------------------ workbooks ------------------------------ *)
\* A workbook is its sheet names in order and the table read from each sheet.
Existe(wb) == wb.names # <<>>

\* pd.read_excel(xls, sheet_name=aba), with the header cells as strings
read_excel(wb, aba) == wb.data[aba]

\* "vr mensal" in s.lower(), over the sheet names that occur
VrMensalNames == {"VR Mensal", "VR MENSAL 05.2025"}

ContemVrMensal(s) == s \in VrMensalNames

\* next((s for s in sheet_names if "vr mensal" in s.lower()), sheet_names[0])
AbaVrMensal(wb) ==
    IF \E i \in 1..Len(wb.names) : ContemVrMensal(wb.names[i])
    THEN wb.names[CHOOSE i \in 1..Len(wb.names) :
                    /\ ContemVrMensal(wb.names[i])
                    /\ \A j \in 1..(i - 1) : ~ContemVrMensal(wb.names[j])]
    ELSE wb.names[1]

\* a new file: the sheets in the order they are written
NovoArquivo(nomes, tabelas) ==
    [names |-> nomes, data |-> [n \in SeqRange(nomes) |-> tabelas[n]]]

\* the replaced sheet deleted and written again after the other sheets
to_excel_replace_last(wb, aba, df) ==
    [names |-> Append(SelectSeq(wb.names, LAMBDA n : n # aba), aba),
     data  |-> [n \in SeqRange(wb.names) \cup {aba} |-> IF n = aba THEN df ELSE wb.data[n]]]

\* ExcelWriter(mode="a", if_sheet_exists="replace"): a sheet that exists is
\* replaced at its own position, a new sheet goes last
to_excel_replace(wb, aba, df) ==
    [names |-> IF aba \in SeqRange(wb.names) THEN wb.names ELSE Append(wb.names, aba),
     data  |-> [n \in SeqRange(wb.names) \cup {aba} |-> IF n = aba THEN df ELSE wb.data[n]]]

(* --------------------------- the cost split ---------------------------- *)
CustoCols == <<"TOTAL", "Custo empresa", "Desconto profissional">>

TemCusto(df) == \A i \in 1..Len(CustoCols) : HasCol(df, CustoCols[i])

\* total * 0.80 and total * 0.20
P80(t) == (t * 80) \div 100
P20(t) == (t * 20) \div 100

\* |x - total*0.8| <= tol/100, |x - total*0.2| <= tol/100, in integers
Perto80(x, t, tol) == 100 * Abs(5 * x - 4 * t) <= 5 * tol
Perto20(x, t, tol) == 100 * Abs(5 * x - t) <= 5 * tol

(* --------------------- _aplicar_80_20_no_arquivo ----------------------- *)
Com8020(df) ==
    IF HasCol(df, "TOTAL")
    THEN LET total == Numeric(df, "TOTAL")
             d == SetCol(df, "Custo empresa", [i \in 1..Len(df.rows) |-> P80(total[i])])
         IN SetCol(d, "Desconto profissional", [i \in 1..Len(df.rows) |-> P20(total[i])])
    ELSE df

_aplicar_80_20_no_arquivo(wb) ==
    LET aba == wb.names[1] IN
    to_excel_replace(wb, aba, Com8020(read_excel(wb, aba)))

(* --------------------------- _gerar_validacoes ------------------------- *)
NumCols == <<"DIAS", "TOTAL", "Custo empresa", "Desconto profissional">>

\* ", ".join(xs) with the text used for an empty list
Join(xs, vazio) == IF xs = <<>> THEN <<vazio>> ELSE xs

Linha(check, detalhe) == [Check |-> check, Detalhe |-> detalhe]

Regra8020(df) ==
    IF TemCusto(df)
    THEN LET total == Numeric(df, "TOTAL")
             ce == Numeric(df, "Custo empresa")
             dp == Numeric(df, "Desconto profissional")
             ce_ok == \A i \in 1..Len(df.rows) : 100 * Abs(5 * ce[i] - 4 * total[i]) < 5
             dp_ok == \A i \in 1..Len(df.rows) : 100 * Abs(5 * dp[i] - total[i]) < 5
         IN <<Linha("Regra 80/20", IF ce_ok /\ dp_ok THEN <<"OK">> ELSE <<"Falha">>)>>
    ELSE <<>>

\* (df[col] < 0).any(): a blank cell is not below zero
NegativosBrutos(df) ==
    SelectSeq(NumCols, LAMBDA c :
        HasCol(df, c) /\ \E i \in 1..Len(df.rows) :
                            df.rows[i][c] # NaN /\ df.rows[i][c] < 0)

_gerar_validacoes(df) ==
    [cols |-> <<"Check", "Detalhe">>,
     rows |-> Regra8020(df)
              \o <<Linha("Valores negativos", Join(NegativosBrutos(df), "Nenhum"))>>]

(* ---------------------------- exportar_planilha ------------------------ *)
exportar_planilha(b, bs) ==
    NovoArquivo(<<"VR Mensal">> \o bs.order \o <<"Validações">>,
                [n \in {"VR Mensal", "Validações"} \cup SeqRange(bs.order) |->
                    IF n = "VR Mensal" THEN b
                    ELSE IF n = "Validações" THEN _gerar_validacoes(b)
                    ELSE bs.tab[n]])

(* ----------------------- validar_conformidade_tool --------------------- *)
ColunasEsperadas(m) == read_excel(m, AbaVrMensal(m)).cols

\* [c for c in colunas_esperadas if c not in df_out.columns]
Faltantes(esperadas, df_out) == SelectSeq(esperadas, LAMBDA c : ~HasCol(df_out, c))

\* [c for c in df_out.columns if c not in colunas_esperadas]
Extras(esperadas, df_out) == SelectSeq(df_out.cols, LAMBDA c : c \notin SeqRange(esperadas))

\* the file after step 4: reinforced when a cost-split column is absent
Reforca(g) == ~TemCusto(read_excel(g, AbaVrMensal(g)))

AposReforco(g) == IF Reforca(g) THEN _aplicar_80_20_no_arquivo(g) ELSE g

PorLinha(df, tol) ==
    LET total == Numeric(df, "TOTAL")
        ce == Numeric(df, "Custo empresa")
        dp == Numeric(df, "Desconto profissional")
        ce_ok == \A i \in 1..Len(df.rows) : Perto80(ce[i], total[i], tol)
        dp_ok == \A i \in 1..Len(df.rows) : Perto20(dp[i], total[i], tol)
    IN IF ~ce_ok \/ ~dp_ok THEN <<<<"Falha 80/20 por linha", ce_ok, dp_ok>>>> ELSE <<>>

\* total_sum = max(1.0, float(total.sum()))
TotalSum(df) ==
    LET s == Sum(Numeric(df, "TOTAL")) IN IF s < 1 THEN 1 ELSE s

Agregado(df, tol) ==
    LET total_sum == TotalSum(df)
        ce_sum == Sum(Numeric(df, "Custo empresa"))
        dp_sum == Sum(Numeric(df, "Desconto profissional"))
        ce_sum_ok == 100 * Abs(5 * ce_sum - 4 * total_sum) <= 5 * tol * total_sum
        dp_sum_ok == 100 * Abs(5 * dp_sum - total_sum) <= 5 * tol * total_sum
    IN IF ~ce_sum_ok \/ ~dp_sum_ok
       THEN <<<<"Falha 80/20 agregado", ce_sum_ok, dp_sum_ok>>>> ELSE <<>>

Issues8020(df, tol) ==
    IF TemCusto(df) THEN PorLinha(df, tol) \o Agregado(df, tol) ELSE <<>>

Negativos(df) ==
    SelectSeq(NumCols, LAMBDA c :
        HasCol(df, c) /\ \E i \in 1..Len(df.rows) : fillna0(df.rows[i][c]) < 0)

\* str(issues_80_20): the text of each entry, in order
BoolStr(b) == IF b THEN "True" ELSE "False"

RECURSIVE StrIssues(_)
StrIssues(issues) ==
    IF issues = <<>> THEN <<>>
    ELSE <<Head(issues)[1], BoolStr(Head(issues)[2]), BoolStr(Head(issues)[3])>>
         \o StrIssues(Tail(issues))

Resumo(faltantes, extras, issues, negativos, tem_val_ref) ==
    [cols |-> <<"Check", "Detalhe">>,
     rows |-> <<Linha("Colunas faltantes", Join(faltantes, "-")),
                Linha("Colunas extras", Join(extras, "-")),
                Linha("80/20", IF issues = <<>> THEN <<"OK">> ELSE StrIssues(issues)),
                Linha("Valores negativos", Join(negativos, "-")),
                Linha("Validações ref. detectada?",
                      IF tem_val_ref THEN <<"Sim">> ELSE <<"Não utilizado">>)>>]

\* validacoes_ref: not given, or a workbook holding a sheet named Validações
Refs == {"none", "com"}

\* the structure compared after the reinforcement instead of before it
Relatorio_depois(g, m, tol) ==
    LET aba_out == AbaVrMensal(g)
        esperadas == ColunasEsperadas(m)
        df_out == read_excel(AposReforco(g), aba_out)
    IN [aba_modelo   |-> AbaVrMensal(m),
        faltantes    |-> Faltantes(esperadas, df_out),
        extras       |-> Extras(esperadas, df_out),
        issues_80_20 |-> Issues8020(df_out, tol),
        negativos    |-> Negativos(df_out)]

Relatorio(g, m, tol) ==
    LET aba_out == AbaVrMensal(g)
        esperadas == ColunasEsperadas(m)
        df_out == read_excel(AposReforco(g), aba_out)
    IN [aba_modelo   |-> AbaVrMensal(m),
        faltantes    |-> Faltantes(esperadas, read_excel(g, aba_out)),
        extras       |-> Extras(esperadas, read_excel(g, aba_out)),
        issues_80_20 |-> Issues8020(df_out, tol),
        negativos    |-> Negativos(df_out)]

\* the numeric checks without the test that their columns exist
ValidarRaises_semGuarda(g, m) ==
    \/ ~Existe(g)
    \/ ~Existe(m)
    \/ AbaVrMensal(g) \notin SeqRange(AposReforco(g).names)
    \/ ~TemCusto(read_excel(AposReforco(g), AbaVrMensal(g)))

\* _find_excel raises when a path does not resolve; read_excel raises when the
\* sheet read back after the reinforcement is not in the file
ValidarRaises(g, m) ==
    \/ ~Existe(g)
    \/ ~Existe(m)
    \/ AbaVrMensal(g) \notin SeqRange(AposReforco(g).names)

\* the report rows written after the rows the Validações sheet already holds
validar_conformidade_tool_append(g, m, ref, tol) ==
    LET r == Relatorio(g, m, tol)
        novo == Resumo(r.faltantes, r.extras, r.issues_80_20, r.negativos, ref = "com")
        h == AposReforco(g)
    IN to_excel_replace(h, "Validações",
           IF "Validações" \in SeqRange(h.names)
           THEN [cols |-> novo.cols, rows |-> read_excel(h, "Validações").rows \o novo.rows]
           ELSE novo)

\* the report written with if_sheet_exists="new": a second sheet beside the
\* Validações sheet the file already has
validar_conformidade_tool_new(g, m, ref, tol) ==
    LET r == Relatorio(g, m, tol)
        h == AposReforco(g)
    IN to_excel_replace(h,
           IF "Validações" \in SeqRange(h.names) THEN "Validações1" ELSE "Validações",
           Resumo(r.faltantes, r.extras, r.issues_80_20, r.negativos, ref = "com"))

validar_conformidade_tool(g, m, ref, tol) ==
    LET r == Relatorio(g, m, tol) IN
    to_excel_replace(AposReforco(g), "Validações",
                     Resumo(r.faltantes, r.extras, r.issues_80_20, r.negativos, ref = "com"))

(* ----------------------------- the files ------------------------------- *)
Row3(t, ce, dp) ==
    ("TOTAL" :> t) @@ ("Custo empresa" :> ce) @@ ("Desconto profissional" :> dp)

Totais == {-100, 0, 100}

\* a row whose split is exact, off by one unit in both columns, or off by
\* one unit in the discount alone
LinhasCusto ==
    {Row3(x[1], P80(x[1]) - x[2][1], P20(x[1]) + x[2][2]) :
        x \in Totais \X {<<0, 0>>, <<1, 1>>, <<0, 1>>}}

FolhasCusto ==
    {[cols |-> CustoCols, rows |-> rs] : rs \in SeqsUpTo(LinhasCusto, MaxLinhas)}

FolhaCenario ==
    [cols |-> <<"MATRICULA", "SINDICATO", "TOTAL", "ESTADO">>,
     rows |-> <<("MATRICULA" :> 1) @@ ("SINDICATO" :> 5) @@ ("TOTAL" :> 660) @@ ("ESTADO" :> 6)>>]

FolhaSemTotal ==
    [cols |-> <<"MATRICULA", "DIAS">>,
     rows |-> <<("MATRICULA" :> 1) @@ ("DIAS" :> -3), ("MATRICULA" :> 2) @@ ("DIAS" :> NaN)>>]

FolhaSemDesconto ==
    [cols |-> <<"TOTAL", "Custo empresa">>,
     rows |-> <<("TOTAL" :> 100) @@ ("Custo empresa" :> 79)>>]

FolhasResultado == FolhasCusto \cup {FolhaCenario, FolhaSemTotal, FolhaSemDesconto}

FolhaAtivos ==
    [cols |-> <<"MATRICULA", "TOTAL">>,
     rows |-> <<("MATRICULA" :> 1) @@ ("TOTAL" :> 660)>>]

ValidacoesAntigas ==
    [cols |-> <<"Check", "Detalhe">>, rows |-> <<Linha("Valores negativos", <<"Nenhum">>)>>]

\* workbooks found on disk: the result sheet first, not first, or under another name
ArquivosExternos ==
    UNION {{NovoArquivo(<<"VR Mensal", "Validações">>,
                        ("VR Mensal" :> f) @@ ("Validações" :> ValidacoesAntigas)),
            NovoArquivo(<<"ATIVOS", "VR Mensal">>,
                        ("ATIVOS" :> FolhaAtivos) @@ ("VR Mensal" :> f)),
            NovoArquivo(<<"Plan1">>, ("Plan1" :> f))} : f \in FolhasResultado}

FolhaModelo(cs) == [cols |-> cs, rows |-> <<>>]

Modelos ==
    {NovoArquivo(<<"Resumo", "VR MENSAL 05.2025">>,
                 ("Resumo" :> FolhaModelo(<<"ESTADO">>))
                 @@ ("VR MENSAL 05.2025" :>
                        FolhaModelo(<<"MATRICULA", "EMPRESA", "SINDICATO", "TOTAL">>))),
     NovoArquivo(<<"Plan1">>,
                 ("Plan1" :> FolhaModelo(<<"MATRICULA", "EMPRESA", "DIAS", "VALOR_DIARIO_VR",
                                           "TOTAL", "Custo empresa", "Desconto profissional">>)))}

\* tolerancia, in hundredths: 0.01 and 1.0
Tols == {1, 100}

NoReport ==
    [aba_modelo |-> "", faltantes |-> <<>>, extras |-> <<>>,
     issues_80_20 |-> <<>>, negativos |-> <<>>]

\* what the last operation returned; for a validation also whether it ran the
\* reinforcement and whether it repeats the call before it
RetValidar(status, tol, ref, report, reforco, repetida) ==
    [op |-> "validar", status |-> status, tol |-> tol, ref |-> ref, report |-> report,
     reforco |-> reforco, repetida |-> repetida]

Ret(op, status, tol, ref, report) ==
    [op |-> op, status |-> status, tol |-> tol, ref |-> ref, report |-> report,
     reforco |-> FALSE, repetida |-> FALSE]

NoOp == Ret("none", "ok", 0, "none", NoReport)

\* no directory, no string and no operation under way
SemPasta == [existe |-> FALSE, arquivos |-> <<>>]
SemTexto == <<>>
Parado ==
    [op |-> "none", pc |-> "idle", handles |-> {}, tol |-> 0, ref |-> "none",
     g0 |-> NoFile, rel |-> NoReport, tem_val_ref |-> FALSE, em |-> "idle"]

(* ------------------ the eligibility builder on its own ----------------- *)
InitMontar ==
    /\ \E a \in AtivosAte(MaxAtivos) \cup {AtivosComSindicato, Ausente},
          f \in FeriasAte(MaxFerias) \cup {Ausente},
          d \in DesligadosAte(MaxDesligados) \cup {Ausente} :
             bases = MkBases(a, f, d)
    /\ base = EmptyDF
    /\ gerado = NoFile
    /\ modelo = NoFile
    /\ last = NoOp
    /\ pasta = SemPasta
    /\ texto = SemTexto
    /\ exec = Parado

Montar ==
    /\ last.op = "none"
    /\ UNCHANGED outros
    /\ IF MontarRaises(bases)
       THEN /\ last' = Ret("montar", "raised", 0, "none", NoReport)
            /\ base' = base
       ELSE /\ last' = Ret("montar", "ok", 0, "none", NoReport)
            /\ base' = montar_base_elegiveis(bases)
    /\ UNCHANGED <<bases, gerado, modelo>>

NextMontar == Montar

SpecMontar == InitMontar /\ [][NextMontar]_vars

(* ------------------------ the life of a workbook ----------------------- *)
Init ==
    /\ bases = NoBases
    /\ base = EmptyDF
    /\ gerado \in ArquivosExternos \cup {NoFile}
    /\ modelo \in Modelos \cup {NoFile}
    /\ last = NoOp
    /\ pasta = SemPasta
    /\ texto = SemTexto
    /\ exec = Parado

\* steps.py run on its own: montar_base_elegiveis, then exportar_planilha,
\* writing a file that is not there yet, from rosters of at most one row
Exportar ==
    /\ ~Existe(gerado)
    /\ UNCHANGED outros
    /\ \E a \in AtivosAte(1) \cup {Ausente},
          f \in FeriasAte(1) \cup {Ausente},
          d \in DesligadosAte(1) \cup {Ausente} :
        LET bs == MkBases(a, f, d) IN
        IF MontarRaises(bs)
        THEN /\ last' = Ret("exportar", "raised", 0, "none", NoReport)
             /\ UNCHANGED <<bases, base, gerado, modelo>>
        ELSE /\ bases' = bs
             /\ base' = montar_base_elegiveis(bs)
             /\ gerado' = exportar_planilha(montar_base_elegiveis(bs), bs)
             /\ last' = Ret("exportar", "ok", 0, "none", NoReport)
             /\ UNCHANGED modelo

\* gerar_vr_mensal_tool on the role mapping that carregar_bases returned,
\* writing a file that is not there yet, from rosters of at most one row
Gerar ==
    /\ ~Existe(gerado)
    /\ UNCHANGED outros
    /\ \E a \in AtivosAte(1) \cup {Ausente},
          f \in FeriasAte(1) \cup {Ausente},
          d \in DesligadosAte(1) \cup {Ausente} :
        LET bs == MkBases(a, f, d) IN
        IF MontarRaises(bs)
        THEN /\ last' = Ret("gerar", "raised", 0, "none", NoReport)
             /\ UNCHANGED <<bases, base, gerado, modelo>>
        ELSE /\ bases' = bs
             /\ base' = montar_base_elegiveis(bs)
             /\ gerado' = _aplicar_80_20_no_arquivo(
                              exportar_planilha(montar_base_elegiveis(bs), bs))
             /\ last' = Ret("gerar", "ok", 0, "none", NoReport)
             /\ UNCHANGED modelo

Aplicar ==
    /\ Existe(gerado)
    /\ UNCHANGED outros
    /\ gerado' = _aplicar_80_20_no_arquivo(gerado)
    /\ last' = Ret("aplicar", "ok", 0, "none", NoReport)
    /\ UNCHANGED <<bases, base, modelo>>

Validar ==
    /\ UNCHANGED outros
    /\ \E tol \in Tols, ref \in Refs :
        IF ValidarRaises(gerado, modelo)
        THEN /\ last' = RetValidar("raised", tol, ref, NoReport, FALSE, FALSE)
             /\ UNCHANGED <<bases, base, gerado, modelo>>
        ELSE /\ gerado' = validar_conformidade_tool(gerado, modelo, ref, tol)
             /\ last' = RetValidar("ok", tol, ref, Relatorio(gerado, modelo, tol),
                                   Reforca(gerado),
                                   /\ last.op = "validar" /\ last.status = "ok"
                                   /\ last.tol = tol /\ last.ref = ref)
             /\ UNCHANGED <<bases, base, modelo>>

Next == Exportar \/ Gerar \/ Aplicar \/ Validar

Spec == Init /\ [][Next]_vars

(* ---------------------- the functions of utils.py ---------------------- *)
\* the characters of the strings tried: letters of four region codes, a
\* lowercase and an accented letter, the sharp s, whitespace, the underscore,
\* a combining accent and the spacing diaeresis
Alfabeto ==
    {"S", "P", "R", "J", "s", "á", "ß", " ", "U+00A0", "_", "U+0301", "U+00A8"}

RetTexto(op, out) == [op |-> op, status |-> "ok", out |-> out]

InitTexto ==
    /\ texto \in SeqsUpTo(Alfabeto, MaxTexto)
    /\ bases = NoBases
    /\ base = EmptyDF
    /\ gerado = NoFile
    /\ modelo = NoFile
    /\ last = NoOp
    /\ pasta = SemPasta
    /\ exec = Parado

\* normalize_cols on a header row of one header
Normalizar ==
    /\ last.op = "none"
    /\ last' = RetTexto("normalize_cols", normalize_cols(<<texto>>))
    /\ UNCHANGED <<bases, base, gerado, modelo, pasta, texto, exec>>

Inferir ==
    /\ last.op = "none"
    /\ last' = RetTexto("infer_estado_from_sindicato", infer_estado_from_sindicato(texto))
    /\ UNCHANGED <<bases, base, gerado, modelo, pasta, texto, exec>>

NextTexto == Normalizar \/ Inferir

SpecTexto == InitTexto /\ [][NextTexto]_vars

(* ------------------------- the directory on its own -------------------- *)
RetPasta(op, status, hint) == [op |-> op, status |-> status, hint |-> hint]

InitPasta ==
    /\ \/ pasta = SemPasta
       \/ \E ids \in SeqsUpTo(1..Len(NomesDeArquivo), MaxArquivos) :
             /\ \A i, j \in 1..Len(ids) : ids[i] = ids[j] => i = j
             /\ pasta = MkPasta(ids)
    /\ bases = NoBases
    /\ base = EmptyDF
    /\ gerado = NoFile
    /\ modelo = NoFile
    /\ last = NoOp
    /\ texto = SemTexto
    /\ exec = Parado

PreCheck ==
    /\ last.op = "none"
    /\ last' = RetPasta("_validate_input_dir", _validate_input_dir(pasta).status,
                        _validate_input_dir(pasta).hint)
    /\ UNCHANGED <<bases, base, gerado, modelo, pasta, texto, exec>>

Carregar ==
    /\ last.op = "none"
    /\ bases' = carregar_bases(pasta)
    /\ last' = RetPasta("carregar_bases", "ok", <<>>)
    /\ UNCHANGED <<base, gerado, modelo, pasta, texto, exec>>

NextPasta == PreCheck \/ Carregar

SpecPasta == InitPasta /\ [][NextPasta]_vars

(* ---------------- the workbook tools run step by step ------------------ *)
\* Every `with pd.ExcelFile(...)` and `with pd.ExcelWriter(...)` block is two
\* steps: the handle is opened, then the body runs and the block is left,
\* which closes the handle whether the body returned or raised.  Opening and
\* the body may fail with an I/O error at any time.
\*
\* v_* are the blocks of validar_conformidade_tool, a_* those of
\* _aplicar_80_20_no_arquivo, alone or called from the validator.
AbreLeituraPcs == {"v_abre_modelo", "v_abre_gerado", "a_abre_gerado", "v_abre_relido", "v_abre_ref"}
LePcs == {"v_le_modelo", "v_le_gerado", "a_le_gerado", "v_relido", "v_le_ref"}
AbreEscritaPcs == {"a_abre_escrita", "v_abre_escrita"}
EscrevePcs == {"a_escreve", "v_escreve"}

\* the file a block works on
ArqDe(pc) ==
    IF pc \in {"v_abre_modelo", "v_le_modelo"} THEN "modelo"
    ELSE IF pc \in {"v_abre_ref", "v_le_ref"} THEN "ref"
    ELSE "gerado"

Handle(arq, modo) == [arq |-> arq, modo |-> modo]

\* a block left without closing its handle
Fecha_nunca(hs, h) == hs

\* leaving a with block closes its handle
Fecha(hs, h) == hs \ {h}

\* validacoes_ref: not given, a workbook with a Validações sheet, or a path
\* that resolves to nothing
RefsPassoAPasso == Refs \cup {"ausente"}

\* step 6 is skipped when no reference is given
AposEstrutura(e) == IF e.ref = "none" THEN "v_abre_escrita" ELSE "v_abre_ref"

\* the block that follows when a block ends without an error
Prox(e, g) ==
    CASE e.pc = "v_abre_modelo"  -> "v_le_modelo"
      [] e.pc = "v_le_modelo"    -> "v_abre_gerado"
      [] e.pc = "v_abre_gerado"  -> "v_le_gerado"
      [] e.pc = "v_le_gerado"    -> IF Reforca(g) THEN "a_abre_gerado" ELSE AposEstrutura(e)
      [] e.pc = "a_abre_gerado"  -> "a_le_gerado"
      [] e.pc = "a_le_gerado"    -> "a_abre_escrita"
      [] e.pc = "a_abre_escrita" -> "a_escreve"
      [] e.pc = "a_escreve"      -> IF e.op = "validar" THEN "v_abre_relido" ELSE "done"
      [] e.pc = "v_abre_relido"  -> "v_relido"
      [] e.pc = "v_relido"       -> AposEstrutura(e)
      [] e.pc = "v_abre_ref"     -> "v_le_ref"
      [] e.pc = "v_le_ref"       -> "v_abre_escrita"
      [] e.pc = "v_abre_escrita" -> "v_escreve"
      [] e.pc = "v_escreve"      -> "done"

\* an exception: swallowed by the try of step 6, raised to the caller elsewhere
AposErro(e) ==
    IF e.pc \in {"v_abre_ref", "v_le_ref"}
    THEN [e EXCEPT !.pc = "v_abre_escrita", !.tem_val_ref = FALSE]
    ELSE [e EXCEPT !.pc = "raised", !.em = e.pc]

\* the errors the code itself runs into: the reference path resolves to
\* nothing, or the sheet read back after the reinforcement is not in the file
ErroCerto(e, g) ==
    \/ e.pc = "v_abre_ref" /\ e.ref = "ausente"
    \/ e.pc = "v_relido" /\ AbaVrMensal(e.g0) \notin SeqRange(g.names)

InitPassoAPasso ==
    /\ gerado \in {g \in ArquivosExternos :
                      Len(read_excel(g, AbaVrMensal(g)).rows) <= 1} \cup {NoFile}
    /\ modelo \in Modelos \cup {NoFile}
    /\ bases = NoBases
    /\ base = EmptyDF
    /\ last = NoOp
    /\ pasta = SemPasta
    /\ texto = SemTexto
    /\ exec = Parado

\* validar_conformidade_tool is called: _find_excel on both paths
ComecaValidar ==
    /\ exec.op = "none"
    /\ \E tol \in Tols, ref \in RefsPassoAPasso :
          exec' = [Parado EXCEPT !.op = "validar", !.tol = tol, !.ref = ref, !.g0 = gerado,
                                 !.pc = IF Existe(gerado) /\ Existe(modelo)
                                        THEN "v_abre_modelo" ELSE "raised",
                                 !.em = IF Existe(gerado) /\ Existe(modelo)
                                        THEN "idle" ELSE "_find_excel"]
    /\ UNCHANGED <<bases, base, gerado, modelo, last, pasta, texto>>

\* _aplicar_80_20_no_arquivo is called on its own
ComecaAplicar ==
    /\ exec.op = "none"
    /\ exec' = [Parado EXCEPT !.op = "aplicar", !.g0 = gerado, !.pc = "a_abre_gerado"]
    /\ UNCHANGED <<bases, base, gerado, modelo, last, pasta, texto>>

\* pd.ExcelFile(path) is entered: the read handle is open, or the open failed
AbreLeitura ==
    /\ exec.pc \in AbreLeituraPcs
    /\ \/ /\ ~ErroCerto(exec, gerado)
          /\ ArqDe(exec.pc) = "gerado" => Existe(gerado)
          /\ exec' = [exec EXCEPT !.pc = Prox(exec, gerado),
                                  !.handles = @ \cup {Handle(ArqDe(exec.pc), "r")}]
       \/ exec' = AposErro(exec)
    /\ UNCHANGED <<bases, base, gerado, modelo, last, pasta, texto>>

\* the body of a read block and its exit: the handle is closed either way
Le ==
    /\ exec.pc \in LePcs
    /\ LET fechado == [exec EXCEPT !.handles = Fecha(@, Handle(ArqDe(exec.pc), "r"))] IN
       \/ /\ ~ErroCerto(exec, gerado)
          /\ exec' = [fechado EXCEPT
                         !.pc = Prox(exec, gerado),
                         !.rel = IF exec.pc = "v_le_gerado"
                                 THEN Relatorio(gerado, modelo, exec.tol) ELSE @,
                         !.tem_val_ref = IF exec.pc = "v_le_ref" THEN exec.ref = "com" ELSE @]
       \/ exec' = AposErro(fechado)
    /\ UNCHANGED <<bases, base, gerado, modelo, last, pasta, texto>>

\* pd.ExcelWriter(path, mode="a") is entered: the write handle is open, or
\* the open failed
AbreEscrita ==
    /\ exec.pc \in AbreEscritaPcs
    /\ \/ exec' = [exec EXCEPT !.pc = Prox(exec, gerado),
                               !.handles = @ \cup {Handle("gerado", "w")}]
       \/ exec' = AposErro(exec)
    /\ UNCHANGED <<bases, base, gerado, modelo, last, pasta, texto>>

\* to_excel and the exit of the write block: the sheet is written and the
\* handle closed, or the body raised and the handle is closed
Escreve ==
    /\ exec.pc \in EscrevePcs
    /\ LET fechado == [exec EXCEPT !.handles = Fecha(@, Handle("gerado", "w"))] IN
       \/ /\ exec' = [fechado EXCEPT !.pc = Prox(exec, gerado)]
          /\ gerado' = IF exec.pc = "a_escreve"
                       THEN _aplicar_80_20_no_arquivo(gerado)
                       ELSE to_excel_replace(gerado, "Validações",
                                Resumo(exec.rel.faltantes, exec.rel.extras,
                                       exec.rel.issues_80_20, exec.rel.negativos,
                                       exec.tem_val_ref))
       \/ /\ exec' = AposErro(fechado)
          /\ gerado' = gerado
    /\ UNCHANGED <<bases, base, modelo, last, pasta, texto>>

NextPassoAPasso == ComecaValidar \/ ComecaAplicar \/ AbreLeitura \/ Le \/ AbreEscrita \/ Escreve

SpecPassoAPasso == InitPassoAPasso /\ [][NextPassoAPasso]_vars

(* ============================ properties ============================== *)
MontouOk == last.op = "montar" /\ last.status = "ok"

Ativos == Get(bases, "ATIVOS")

\* the MATRICULA values of the terminated roster
MatDesligados ==
    LET d == Get(bases, "DESLIGADOS") IN
    IF HasCol(d, "MATRICULA") THEN {d.rows[i]["MATRICULA"] : i \in 1..Len(d.rows)} ELSE {}

\* the active row i is a row of the table, with the columns it came with,
\* the union-chapter text normalized
Presente(i) ==
    \E j \in 1..Len(base.rows) :
        \A c \in DOMAIN Ativos.rows[i] :
            base.rows[j][c] = IF c = "SINDICATO" THEN strip_accents_upper(Ativos.rows[i][c])
                              ELSE Ativos.rows[i][c]

\* C1: an active row is absent from the table montar_base_elegiveis returns
\* when its MATRICULA is in the terminated roster's MATRICULA column, and
\* present otherwise.
C1_Exclusao ==
    (MontouOk /\ HasCol(Ativos, "MATRICULA")) =>
        \A i \in 1..Len(Ativos.rows) :
            IF Ativos.rows[i]["MATRICULA"] \in MatDesligados
            THEN \A j \in 1..Len(base.rows) :
                    base.rows[j]["MATRICULA"] # Ativos.rows[i]["MATRICULA"]
            ELSE Presente(i)

C1_Witness ==
    /\ MontouOk
    /\ HasCol(Ativos, "MATRICULA")
    /\ \E i, k \in 1..Len(Ativos.rows) :
          /\ Ativos.rows[i]["MATRICULA"] \in MatDesligados
          /\ Ativos.rows[k]["MATRICULA"] \notin MatDesligados
          /\ Presente(k)

\* the vacation days recorded for employee m: one value per record, a blank
\* day count being no days
DiasRegistrados(m) ==
    LET f == Get(bases, "FERIAS") IN
    IF HasCol(f, "MATRICULA") /\ HasCol(f, "DIAS_DE_FERIAS") /\ HasCol(Ativos, "MATRICULA")
    THEN {IF f.rows[i]["DIAS_DE_FERIAS"] = NaN THEN 0 ELSE f.rows[i]["DIAS_DE_FERIAS"] :
             i \in {n \in 1..Len(f.rows) : f.rows[n]["MATRICULA"] = m}}
    ELSE {}

MatDe(r) == IF "MATRICULA" \in DOMAIN r THEN r["MATRICULA"] ELSE NaN

\* C2: in the returned table an employee with no vacation record has
\* DIAS = 22 and an employee with k vacation days recorded has DIAS = 22 - k,
\* negative when k > 22.
C2_Dias ==
    MontouOk =>
        /\ \A j \in 1..Len(base.rows) :
              IF DiasRegistrados(MatDe(base.rows[j])) = {}
              THEN base.rows[j]["DIAS"] = 22
              ELSE \E k \in DiasRegistrados(MatDe(base.rows[j])) : base.rows[j]["DIAS"] = 22 - k
        /\ \A j \in 1..Len(base.rows) :
              \A k \in DiasRegistrados(MatDe(base.rows[j])) :
                  \E n \in 1..Len(base.rows) :
                      /\ MatDe(base.rows[n]) = MatDe(base.rows[j])
                      /\ base.rows[n]["DIAS"] = 22 - k

C2_Witness ==
    /\ MontouOk
    /\ \E j, n \in 1..Len(base.rows) :
          /\ DiasRegistrados(MatDe(base.rows[j])) = {}
          /\ base.rows[j]["DIAS"] = 22
          /\ 25 \in DiasRegistrados(MatDe(base.rows[n]))
          /\ base.rows[n]["DIAS"] = -3

\* C3: every row of the returned table has VALOR_DIARIO_VR = 30 and
\* TOTAL = DIAS * 30, rows with a negative DIAS included.
C3_Total ==
    MontouOk =>
        \A j \in 1..Len(base.rows) :
            /\ base.rows[j]["VALOR_DIARIO_VR"] = 30
            /\ base.rows[j]["TOTAL"] = base.rows[j]["DIAS"] * 30

C3_Witness ==
    /\ MontouOk
    /\ \E j, n \in 1..Len(base.rows) :
          /\ base.rows[j]["DIAS"] = -3
          /\ base.rows[j]["TOTAL"] = -90
          /\ base.rows[n]["DIAS"] = 12
          /\ base.rows[n]["TOTAL"] = 360

(* ----------------------- properties of the workbook -------------------- *)
\* the file on disk was written by exportar_planilha
Exportado == Existe(gerado) /\ base # EmptyDF

\* the sheet the validator checks
FolhaResultado == read_excel(gerado, AbaVrMensal(gerado))

ValidouOk == last.op = "validar" /\ last.status = "ok"

DentroDoSplit(df, tol) ==
    /\ HasCol(df, "Custo empresa")
    /\ HasCol(df, "Desconto profissional")
    /\ \A i \in 1..Len(df.rows) :
          /\ 100 * Abs(5 * df.rows[i]["Custo empresa"] - 4 * df.rows[i]["TOTAL"]) <= 5 * tol
          /\ 100 * Abs(5 * df.rows[i]["Desconto profissional"] - df.rows[i]["TOTAL"]) <= 5 * tol

\* C4: after exportar_planilha has written the workbook, and after
\* validar_conformidade_tool has run on a generated workbook, every row of
\* the result sheet has 'Custo empresa' within tol of 0.8*TOTAL and
\* 'Desconto profissional' within tol of 0.2*TOTAL (tol is 0.01 after the
\* export, the validator's tolerance after a validation).
C4_SplitAposExportar ==
    /\ (last.op = "exportar" /\ last.status = "ok") => DentroDoSplit(FolhaResultado, 1)
    /\ (ValidouOk /\ Exportado) => DentroDoSplit(FolhaResultado, last.tol)

\* C5 as amended: two calls of validar_conformidade_tool in a row, with the
\* same arguments, return the same report and leave the same Validações
\* sheet, provided the first call did not have to add the cost-split columns.
C5_IdempotenteSemReforco ==
    [][(/\ ValidouOk /\ ~last.reforco
        /\ last'.op = "validar" /\ last'.status = "ok"
        /\ last'.tol = last.tol /\ last'.ref = last.ref)
       => /\ last'.report = last.report
          /\ gerado'.data["Validações"] = gerado.data["Validações"]]_vars

\* a second call in a row, on a sheet with failures to report, that did not
\* have to add the columns
C5_Witness ==
    /\ ValidouOk
    /\ last.repetida
    /\ ~last.reforco
    /\ last.report.issues_80_20 # <<>>
    /\ last.report.faltantes # <<>>

\* C5 as stated: two calls of validar_conformidade_tool in a row, with the
\* same arguments, return the same report and leave the same Validações
\* sheet, also when the first call had to add the cost-split columns.
C5_Idempotente ==
    [][(/\ ValidouOk
        /\ last'.op = "validar" /\ last'.status = "ok"
        /\ last'.tol = last.tol /\ last'.ref = last.ref)
       => /\ last'.report = last.report
          /\ gerado'.data["Validações"] = gerado.data["Validações"]]_vars

\* C6: when the generated workbook and the template both exist,
\* validar_conformidade_tool returns a report with status ok, whatever the
\* result sheet holds.
C6_SempreRelatorio ==
    (last.op = "validar" /\ Existe(gerado) /\ Existe(modelo)) =>
        /\ last.status = "ok"
        /\ "Validações" \in SeqRange(gerado.names)

\* every check fails at once and the report still comes back
C6_Witness ==
    /\ ValidouOk
    /\ last.report.faltantes # <<>>
    /\ last.report.extras # <<>>
    /\ Len(last.report.issues_80_20) = 2
    /\ last.report.negativos # <<>>

\* s holds elements of t, each once, in the order they have in t
EmOrdemDe(s, t) ==
    \A i, j \in 1..Len(s) :
        i < j => \E a, b \in 1..Len(t) : a < b /\ t[a] = s[i] /\ t[b] = s[j]

CenarioModelo == <<"MATRICULA", "EMPRESA", "SINDICATO", "TOTAL">>
CenarioGerado == <<"MATRICULA", "SINDICATO", "TOTAL", "ESTADO">>

\* C7: the report lists as missing exactly the template columns that are not
\* columns of the generated result sheet, in template order, and as extra
\* exactly the generated columns that are not template columns, in sheet
\* order; template [MATRICULA, EMPRESA, SINDICATO, TOTAL] against sheet
\* [MATRICULA, SINDICATO, TOTAL, ESTADO] gives [EMPRESA] and [ESTADO].
C7_FaltantesExtras ==
    [][(last'.op = "validar" /\ last'.status = "ok") =>
          LET esperadas == read_excel(modelo, AbaVrMensal(modelo)).cols
              geradas == FolhaResultado.cols
              r == last'.report
          IN /\ SeqRange(r.faltantes) = SeqRange(esperadas) \ SeqRange(geradas)
             /\ EmOrdemDe(r.faltantes, esperadas)
             /\ SeqRange(r.extras) = SeqRange(geradas) \ SeqRange(esperadas)
             /\ EmOrdemDe(r.extras, geradas)
             /\ (esperadas = CenarioModelo /\ geradas = CenarioGerado)
                   => (r.faltantes = <<"EMPRESA">> /\ r.extras = <<"ESTADO">>)]_vars

C7_Witness ==
    /\ ValidouOk
    /\ read_excel(modelo, AbaVrMensal(modelo)).cols = CenarioModelo
    /\ SeqRange(CenarioGerado) \subseteq SeqRange(FolhaResultado.cols)
    /\ last.report.faltantes = <<"EMPRESA">>
    /\ last.report.extras = <<"ESTADO">>

SomaDe(c) == Sum([i \in 1..Len(FolhaResultado.rows) |-> FolhaResultado.rows[i][c]])

TemFalhaAgregada ==
    \E i \in 1..Len(last.report.issues_80_20) :
        last.report.issues_80_20[i][1] = "Falha 80/20 agregado"

\* C8: the aggregate check passes exactly when the summed 'Custo empresa' is
\* within tolerance * max(1, sum of TOTAL) of 0.8 * (sum of TOTAL) and the
\* summed 'Desconto profissional' within the same bound of 0.2 * (sum of
\* TOTAL), also when TOTAL sums to zero or less.
C8_Agregado ==
    (ValidouOk /\ TemCusto(FolhaResultado)) =>
        LET s == SomaDe("TOTAL")
            piso == IF s < 1 THEN 1 ELSE s
        IN ~TemFalhaAgregada <=>
              /\ 100 * Abs(5 * SomaDe("Custo empresa") - 4 * s) <= 5 * last.tol * piso
              /\ 100 * Abs(5 * SomaDe("Desconto profissional") - s) <= 5 * last.tol * piso

ColunasNegativas ==
    SelectSeq(NumCols, LAMBDA c :
        HasCol(FolhaResultado, c)
        /\ \E i \in 1..Len(FolhaResultado.rows) : FolhaResultado.rows[i][c] < 0)

\* C9: the Validações sheet of a workbook produced by the generate operation
\* has at least two rows: a cost-split row with detail OK or Falha, and a
\* negative-values row naming the columns among DIAS, TOTAL, 'Custo empresa'
\* and 'Desconto profissional' that hold a negative value, or none.
C9_ValidacoesGeradas ==
    (last.op = "gerar" /\ last.status = "ok") =>
        LET v == read_excel(gerado, "Validações").rows IN
        /\ Len(v) >= 2
        /\ \E i \in 1..Len(v) :
              v[i].Check = "Regra 80/20" /\ v[i].Detalhe \in {<<"OK">>, <<"Falha">>}
        /\ \E i \in 1..Len(v) :
              /\ v[i].Check = "Valores negativos"
              /\ v[i].Detalhe = (IF ColunasNegativas = <<>> THEN <<"Nenhum">>
                                 ELSE ColunasNegativas)

\* C10: in a workbook written by exportar_planilha the first sheet is
\* 'VR Mensal', and it is still the first sheet after any reinforcement and
\* validation passes over that workbook.
C10_PrimeiraAba == Exportado => gerado.names[1] = "VR Mensal"

C10_Witness ==
    /\ Exportado
    /\ ValidouOk
    /\ TemCusto(FolhaResultado)
    /\ Len(gerado.names) > 2
    /\ gerado.names[1] = "VR Mensal"


\* the number of sheets of the generated workbook named n
NumAbas(n) == Cardinality({i \in 1..Len(gerado.names) : gerado.names[i] = n})

\* the Validações sheet that holds the rows of the report just returned
ResumoDoUltimo ==
    Resumo(last.report.faltantes, last.report.extras, last.report.issues_80_20,
           last.report.negativos, last.ref = "com")

\* C11: after any number of validar_conformidade_tool invocations the
\* workbook holds exactly one Validações sheet, and that sheet holds only the
\* rows of the most recent invocation's report: the rows of the exporter's
\* self-check or of earlier validator passes are replaced.
C11_ValidacoesSubstituida ==
    ValidouOk =>
        /\ NumAbas("Validações") = 1
        /\ read_excel(gerado, "Validações") = ResumoDoUltimo

\* a second pass in a row over a workbook the exporter wrote
C11_Witness ==
    /\ ValidouOk
    /\ Exportado
    /\ last.repetida
    /\ NumAbas("Validações") = 1
    /\ Len(read_excel(gerado, "Validações").rows) = 5


\* the positions in the fixed list of the codes that occur in s
Codigos(s) == {i \in 1..Len(UFs) : Contains(UFs[i], s)}

\* C14: infer_estado_from_sindicato returns the code c when the normalized
\* text contains exactly one code c of the fixed list, '?' when it contains
\* none, and the code that comes first in list order when several occur.
C14_Estado ==
    (last.op = "infer_estado_from_sindicato") =>
        LET k == Codigos(strip_accents_upper(texto)) IN
        /\ (k = {}) => (last.out = <<"?">>)
        /\ \A i \in k : (k = {i}) => (last.out = UFs[i])
        /\ \A i \in k : (\A j \in k : i <= j) => (last.out = UFs[i])

\* RS comes before SP in the text and after it in the list
C14_Witness ==
    /\ last.op = "infer_estado_from_sindicato"
    /\ texto # strip_accents_upper(texto)
    /\ strip_accents_upper(texto) = <<"R", "S", "P">>
    /\ Codigos(strip_accents_upper(texto)) = {1, 4}
    /\ last.out = <<"S", "P">>

\* uppercase, accent-free and underscore-separated
JaNormalizado(h) ==
    \A i \in 1..Len(h) :
        h[i] = "_" \/ (h[i] \notin {"Á", "É"} /\ \E n \in 1..Len(Maiusculas) : Maiusculas[n] = h[i])

\* C15: header normalization is idempotent: normalize_cols applied to the
\* result of normalize_cols gives the same header, and a header that is
\* already uppercase, accent-free and underscore-separated is returned
\* unchanged.
C15_Idempotente ==
    (last.op = "normalize_cols") =>
        /\ normalize_cols(last.out) = last.out
        /\ JaNormalizado(texto) => (last.out = <<texto>>)

\* an accented letter, a no-break space and a lowercase letter
C15_Witness ==
    /\ last.op = "normalize_cols"
    /\ texto = <<"á", "U+00A0", "s">>
    /\ last.out = <<<<"A", "_", "S">>>>
    /\ normalize_cols(last.out) = last.out


\* the exclusion has nothing to go by: no terminated rows, or a table
\* without MATRICULA
SemExclusao ==
    \/ IsEmpty(Get(bases, "DESLIGADOS"))
    \/ ~HasCol(Ativos, "MATRICULA")
    \/ ~HasCol(Get(bases, "DESLIGADOS"), "MATRICULA")

\* the vacation adjustment has nothing to go by
SemFerias ==
    \/ IsEmpty(Get(bases, "FERIAS"))
    \/ ~HasCol(Ativos, "MATRICULA")
    \/ ~HasCol(Get(bases, "FERIAS"), "MATRICULA")
    \/ ~HasCol(Get(bases, "FERIAS"), "DIAS_DE_FERIAS")

\* C16: montar_base_elegiveis returns a table, and never raises, for every
\* role mapping in which a roster or one of its join columns is missing: the
\* exclusion keeps all active rows when the terminated roster is absent or
\* either table lacks MATRICULA, and DIAS is 22 on every row when the
\* vacation roster is absent, when either table lacks MATRICULA, or when the
\* vacation table lacks DIAS_DE_FERIAS.
C16_NuncaLevanta ==
    (last.op = "montar") =>
        /\ last.status = "ok"
        /\ SemExclusao =>
              /\ Len(base.rows) >= Len(Ativos.rows)
              /\ \A i \in 1..Len(Ativos.rows) : Presente(i)
        /\ SemFerias => \A j \in 1..Len(base.rows) : base.rows[j]["DIAS"] = 22


\* the roles whose ingestion hints occur in a file name, case-insensitively
Papeis(nome) ==
    {k \in {"ATIVOS", "FERIAS", "DESLIGADOS"} :
        \/ k = "ATIVOS" /\ Contains(HintAtivos, upper(nome))
        \/ k = "FERIAS" /\ (\/ Contains(HintFerias, upper(nome))
                            \/ Contains(HintFeriasAcento, upper(nome)))
        \/ k = "DESLIGADOS" /\ Contains(HintDesligados, upper(nome))}

\* the table of file i of the directory is the table of some role
Contribui(i) ==
    \E k \in DOMAIN bases.tab : bases.tab[k] = NormalizaColunas(pasta.arquivos[i].tab)

\* C12: carregar_bases drops, without raising, every file whose name matches
\* no role hint and every file whose name matches the hints of more than one
\* role: such a file contributes a table to no role of the returned mapping.
C12_Descarta ==
    (last.op = "carregar_bases") =>
        /\ last.status = "ok"
        /\ \A i \in 1..Len(pasta.arquivos) :
              (Cardinality(Papeis(pasta.arquivos[i].nome)) # 1) => ~Contribui(i)

\* some .xlsx file name holds a hint of the role, case-insensitively
TemArquivoDe(k) ==
    \E i \in 1..Len(pasta.arquivos) :
        /\ EndsWith(lower(pasta.arquivos[i].nome), Xlsx)
        /\ k \in Papeis(pasta.arquivos[i].nome)

NomesNaPasta == {pasta.arquivos[i].nome : i \in 1..Len(pasta.arquivos)}

\* C13: for an existing directory the pre-check fails exactly when, for at
\* least one of the three roles, no .xlsx file name contains that role's hint
\* case-insensitively, the hints being those of ingestion (ATIVOS,
\* DESLIGADOS, and FERIAS or FÉRIAS); a directory with ATIVOS.xlsx,
\* DESLIGADOS.xlsx and FERIAS.xlsx passes.
C13_PreCheck ==
    (last.op = "_validate_input_dir" /\ pasta.existe) =>
        /\ (last.status = "raised") <=>
              (\E k \in {"ATIVOS", "FERIAS", "DESLIGADOS"} : ~TemArquivoDe(k))
        /\ (NomesNaPasta = {HintAtivos \o Xlsx, HintDesligados \o Xlsx, HintFerias \o Xlsx})
              => (last.status = "ok")


\* the role a name is taken for: the first, in the order ATIVOS, FERIAS,
\* DESLIGADOS, of the roles whose hints it holds
Prioridade(nome) ==
    IF "ATIVOS" \in Papeis(nome) THEN "ATIVOS"
    ELSE IF "FERIAS" \in Papeis(nome) THEN "FERIAS"
    ELSE "DESLIGADOS"

\* file i is read: its extension is .xlsx as written, and its name holds a hint
Lido(i) ==
    /\ EndsWith(pasta.arquivos[i].nome, Xlsx)
    /\ Papeis(pasta.arquivos[i].nome) # {}

\* C12 as amended: carregar_bases does not raise; a file whose name matches
\* no role hint contributes to no role; a file whose name matches the hints
\* of more than one role is loaded under the first of them in the order
\* ATIVOS, FERIAS, DESLIGADOS, and like any file stays in the mapping unless
\* a later file is loaded under the same role.
C12_PrimeiroPapel ==
    (last.op = "carregar_bases") =>
        /\ last.status = "ok"
        /\ \A i \in 1..Len(pasta.arquivos) :
              (Papeis(pasta.arquivos[i].nome) = {}) => ~Contribui(i)
        /\ DOMAIN bases.tab =
              {Prioridade(pasta.arquivos[i].nome) : i \in {n \in 1..Len(pasta.arquivos) : Lido(n)}}
        /\ \A i \in 1..Len(pasta.arquivos) :
              (/\ Lido(i)
               /\ \A j \in (i + 1)..Len(pasta.arquivos) :
                     Lido(j) => Prioridade(pasta.arquivos[j].nome)
                                   # Prioridade(pasta.arquivos[i].nome))
              => bases.tab[Prioridade(pasta.arquivos[i].nome)]
                    = NormalizaColunas(pasta.arquivos[i].tab)

\* ATIVOS_DESLIGADOS.xlsx is the active roster, dados.xlsx is dropped
C12_Witness ==
    /\ last.op = "carregar_bases"
    /\ NomesNaPasta = {NomesDeArquivo[5], NomesDeArquivo[7]}
    /\ DOMAIN bases.tab = {"ATIVOS"}
    /\ bases.tab["ATIVOS"] = NormalizaColunas(Planilha(5))
    /\ bases.tab["ATIVOS"].cols # Planilha(5).cols



\* the steps of a validation that returned add up to validar_conformidade_tool
PassoAPassoConfere ==
    (exec.op = "validar" /\ exec.pc = "done") =>
        /\ ~ValidarRaises(exec.g0, modelo)
        /\ gerado = validar_conformidade_tool(exec.g0, modelo,
                        IF exec.tem_val_ref THEN "com" ELSE "none", exec.tol)

\* C17: in every execution of validar_conformidade_tool and of
\* _aplicar_80_20_no_arquivo, executions that end in an error included, a
\* write handle on the generated workbook is open only when every read
\* handle on it has been closed, and no workbook handle is open when the
\* operation has returned or raised.
C17_Handles ==
    /\ (Handle("gerado", "w") \in exec.handles) => (Handle("gerado", "r") \notin exec.handles)
    /\ (exec.pc \in {"done", "raised"}) => (exec.handles = {})
    /\ Cardinality(exec.handles) <= 1

\* the validator added the cost-split columns, read the sheet back, and
\* failed while writing its report
C17_Witness ==
    /\ exec.op = "validar"
    /\ exec.pc = "raised"
    /\ exec.em = "v_escreve"
    /\ gerado = _aplicar_80_20_no_arquivo(exec.g0)
    /\ gerado # exec.g0
    /\ exec.handles = {}

====
